---- MODULE Spec2Model ----
(***************************************************************************)
(* The MLS worker of rust-mls-worker/src/lib.rs: processEvent (command     *)
(* dispatch and response formatting), process_stream (the per-frame        *)
(* transform loop) and the frame accessors.  The GroupEngine (mod mls_ops) *)
(* and the host's streams are the environment.                             *)
(***************************************************************************)
EXTENDS Integers, Sequences, FiniteSets, TLC

\* ------------------------------------------------------------------ bounds
MaxCalls == 2
MaxFrames == 2
MaxProposals == 2

Calls == 1..MaxCalls

SeqsUpTo(S, n) == UNION {[1..k -> S] : k \in 0..n}

\* Rust's Option<T>: None is <<>>, Some(x) is <<x>>.
Option(S) == {<<>>} \cup {<<x>> : x \in S}

\* ------------------------------------------------- host values: the frames
\* A chunk of the input stream is any JS value; "other" is a value that is
\* neither an RTCEncodedAudioFrame nor an RTCEncodedVideoFrame.
Kinds == {"audio", "video", "other"}
FrameShapes ==
    {[kind |-> k, data |-> IF k = "video" THEN <<2, 3>> ELSE <<1>>] :
        k \in Kinds}

\* The i-th chunk the host enqueues: an object with an identity, a kind,
\* host-owned metadata and a payload.
MakeFrames(shapes) ==
    [i \in 1..Len(shapes) |->
        [id |-> i, kind |-> shapes[i].kind, timestamp |-> 90 * i,
         data |-> shapes[i].data]]

\* JS undefined, as the value of a read result.
Undefined == [id |-> 0, kind |-> "undefined", timestamp |-> 0, data |-> <<>>]

FrameSeqs == {MakeFrames(s) : s \in SeqsUpTo(FrameShapes, MaxFrames)}

\* ------------------------------------------- host values: command envelopes
KnownTypes == {"initialize", "initializeAndCreateGroup", "userJoined",
               "encryptStream", "decryptStream"}
StreamTypes == {"encryptStream", "decryptStream"}

JsUndefinedStr == [t |-> "undefined", s |-> ""]
TypeVals == {JsUndefinedStr, [t |-> "number", s |-> ""]}
            \cup {[t |-> "string", s |-> x] : x \in KnownTypes \cup {"bogus"}}
IdVals == {JsUndefinedStr, [t |-> "number", s |-> ""],
           [t |-> "string", s |-> "alice"]}

JsUndefinedBuf == [t |-> "undefined", bytes |-> <<>>]
KeyPkgVals == {JsUndefinedBuf, [t |-> "string", bytes |-> <<>>],
               [t |-> "ArrayBuffer", bytes |-> <<7, 8>>]}

JsUndefinedIn == [t |-> "undefined", locked |-> FALSE, chunks |-> <<>>]
InVals == {JsUndefinedIn,
           [t |-> "number", locked |-> FALSE, chunks |-> <<>>],
           [t |-> "ReadableStream", locked |-> TRUE, chunks |-> <<>>]}
          \cup {[t |-> "ReadableStream", locked |-> FALSE, chunks |-> q] :
                    q \in FrameSeqs}

JsUndefinedOut == [t |-> "undefined", locked |-> FALSE]
OutVals == {JsUndefinedOut, [t |-> "number", locked |-> FALSE]}
           \cup {[t |-> "WritableStream", locked |-> l] : l \in BOOLEAN}

\* The envelopes the host posts: any type with the lifecycle fields, or any
\* type with the stream fields.
Events ==
    [type : TypeVals, id : IdVals, keyPkg : KeyPkgVals,
     in : {JsUndefinedIn}, out : {JsUndefinedOut}]
    \cup
    [type : TypeVals, id : {JsUndefinedStr}, keyPkg : {JsUndefinedBuf},
     in : InVals, out : OutVals]

\* JsValue::as_string: Some for a JS string, None for anything else.
as_string(v) == IF v.t = "string" THEN <<v.s>> ELSE <<>>
TypeIs(event, names) == event.type.t = "string" /\ event.type.s \in names

\* --------------------------------------------- GroupEngine (mod mls_ops)
\* A value the marshaler serializes: its content, or one that cannot be
\* serialized.
Obj(body) == [ok |-> TRUE, body |-> body]
BadObj == [ok |-> FALSE, body |-> <<>>]

SafetyNumbers == {<<10>>}
KeyPackages == {Obj(<<20>>), BadObj}
Welcomes == {Obj(<<30, 31>>), BadObj}
RatchetTrees == {Obj(<<40>>), BadObj}
MlsMessages == {Obj(<<50>>), Obj(<<51>>), BadObj}

WelcomePackageOut == [welcome : Welcomes, ratchet_tree : RatchetTrees]

WorkerResponse ==
    [new_safety_number : Option(SafetyNumbers),
     key_pkg : Option(KeyPackages),
     welcome : Option(WelcomePackageOut),
     proposals : SeqsUpTo(MlsMessages, MaxProposals)]

\* tls_serialize_detached / to_bytes: Some(the length-prefixed encoding),
\* or None for Err.
tls_serialize_detached(o) ==
    IF o.ok THEN <<(<<Len(o.body)>> \o o.body)>> ELSE <<>>

\* The session state the engine owns.
NoSession == [id |-> "", group |-> FALSE, members |-> {}]
EngineOp(op, id, bytes) == [op |-> op, id |-> id, bytes |-> bytes]
ApplyOp(eng, o) ==
    CASE o.op = "new_state" -> [id |-> o.id, group |-> FALSE, members |-> {}]
      [] o.op = "new_state_and_start_group" ->
            [id |-> o.id, group |-> TRUE, members |-> {}]
      [] OTHER -> [eng EXCEPT !.members = @ \cup {o.bytes}]

encrypt_msg(bytes) == <<200>> \o bytes
decrypt_msg(bytes) == IF Len(bytes) > 0 THEN Tail(bytes) ELSE bytes
ApplyTransform(f, bytes) ==
    IF f = "encrypt_msg" THEN encrypt_msg(bytes) ELSE decrypt_msg(bytes)

\* ------------------------------------------------------- frame accessors
\* Uint8Array::to_vec / copy_from: a byte-for-byte copy.
CopyBytes(b) == [i \in 1..Len(b) |-> b[i]]

\* A get_frame_data that reads any other value as an empty payload.
get_frame_data_lenient(frame) ==
    IF frame.kind \in {"audio", "video"} THEN <<CopyBytes(frame.data)>>
    ELSE << <<>> >>

\* Some(bytes), or None where the code panics.
get_frame_data(frame) ==
    IF frame.kind = "audio" THEN <<CopyBytes(frame.data)>>
    ELSE IF frame.kind = "video" THEN <<CopyBytes(frame.data)>>
    ELSE <<>>

\* A set_frame_data that fills the fresh ArrayBuffer and never calls set_data.
set_frame_data_unset(frame, new_data) ==
    IF frame.kind \in {"audio", "video"} THEN <<frame>> ELSE <<>>

\* A set_frame_data that hands back a fresh frame of the same kind holding
\* the new payload, its other metadata at their defaults.
set_frame_data_rebuilt(frame, new_data) ==
    IF frame.kind \in {"audio", "video"}
    THEN <<[id |-> frame.id, kind |-> frame.kind, timestamp |-> 0,
            data |-> CopyBytes(new_data)]>>
    ELSE <<>>

\* Some(the frame after set_data), or None where the code panics.
set_frame_data(frame, new_data) ==
    IF frame.kind = "audio" THEN <<[frame EXCEPT !.data = CopyBytes(new_data)]>>
    ELSE IF frame.kind = "video" THEN <<[frame EXCEPT !.data = CopyBytes(new_data)]>>
    ELSE <<>>

\* ---------------------------------------------------- response formatting
\* make_obj_and_save_buffers: the object {type: name, field: ArrayBuffer...}
\* and the list of those same ArrayBuffers.  An ArrayBuffer has an identity
\* (buf) and its bytes; base is the number of buffers allocated before.
\* A helper that pushes onto buffers a second copy of the bytes instead of
\* the ArrayBuffer it stored in the object.
make_obj_and_copy_buffers(name, named_bytestrings, base) ==
    LET n == Len(named_bytestrings)
        arr(i) == [buf |-> base + i,
                   bytes |-> CopyBytes(named_bytestrings[i][2])]
    IN [o |-> [type |-> name,
               fields |-> [i \in 1..n |->
                             [name |-> named_bytestrings[i][1],
                              value |-> arr(i)]]],
        buffers |-> [i \in 1..n |-> [arr(i) EXCEPT !.buf = base + n + i]]]

\* A helper that saves only the buffer of the first field.
make_obj_and_save_first_buffer(name, named_bytestrings, base) ==
    LET n == Len(named_bytestrings)
        arr(i) == [buf |-> base + i,
                   bytes |-> CopyBytes(named_bytestrings[i][2])]
    IN [o |-> [type |-> name,
               fields |-> [i \in 1..n |->
                             [name |-> named_bytestrings[i][1],
                              value |-> arr(i)]]],
        buffers |-> [i \in 1..(IF n > 1 THEN 1 ELSE n) |-> arr(i)]]

make_obj_and_save_buffers(name, named_bytestrings, base) ==
    LET n == Len(named_bytestrings)
        arr(i) == [buf |-> base + i,
                   bytes |-> CopyBytes(named_bytestrings[i][2])]
    IN [o |-> [type |-> name,
               fields |-> [i \in 1..n |->
                             [name |-> named_bytestrings[i][1],
                              value |-> arr(i)]]],
        buffers |-> [i \in 1..n |-> arr(i)]]

\* obj_list.push(&o); buffers_list.push(&buffers)
Accumulate(acc, name, named_bytestrings) ==
    LET r == make_obj_and_save_buffers(name, named_bytestrings, acc.nbuf)
    IN [acc EXCEPT !.obj_list = Append(@, r.o),
                   !.buffers_list = Append(@, r.buffers),
                   !.nbuf = @ + Len(named_bytestrings)]

Panicked(acc) == [acc EXCEPT !.panic = TRUE]

\* A safety-number step that emits its envelope even when the field is None.
push_safety_number_always(acc, resp) ==
    IF acc.panic THEN acc
    ELSE Accumulate(acc, "newSafetyNumber",
                    << <<"hash", IF resp.new_safety_number = <<>> THEN <<>>
                                 ELSE resp.new_safety_number[1]>> >>)

push_safety_number(acc, resp) ==
    IF acc.panic \/ resp.new_safety_number = <<>> THEN acc
    ELSE Accumulate(acc, "newSafetyNumber",
                    << <<"hash", resp.new_safety_number[1]>> >>)

push_key_package(acc, resp) ==
    IF acc.panic \/ resp.key_pkg = <<>> THEN acc
    ELSE LET kp == tls_serialize_detached(resp.key_pkg[1])
         IN IF kp = <<>> THEN Panicked(acc)
            ELSE Accumulate(acc, "shareKeyPackage", << <<"keyPkg", kp[1]>> >>)

push_welcome(acc, resp) ==
    IF acc.panic \/ resp.welcome = <<>> THEN acc
    ELSE LET w == tls_serialize_detached(resp.welcome[1].welcome)
             rt == tls_serialize_detached(resp.welcome[1].ratchet_tree)
         IN IF w = <<>> \/ rt = <<>> THEN Panicked(acc)
            ELSE Accumulate(acc, "sendMlsWelcome",
                            << <<"welcome", w[1]>>, <<"rtree", rt[1]>> >>)

\* A proposals loop that skips a message it cannot serialize.
RECURSIVE push_proposals_skip_failed(_, _)
push_proposals_skip_failed(acc, proposals) ==
    IF acc.panic \/ proposals = <<>> THEN acc
    ELSE LET msg == tls_serialize_detached(Head(proposals))
         IN IF msg = <<>>
            THEN push_proposals_skip_failed(acc, Tail(proposals))
            ELSE push_proposals_skip_failed(
                     Accumulate(acc, "sendMlsMessage", << <<"msg", msg[1]>> >>),
                     Tail(proposals))

RECURSIVE push_proposals(_, _)
push_proposals(acc, proposals) ==
    IF acc.panic \/ proposals = <<>> THEN acc
    ELSE LET msg == tls_serialize_detached(Head(proposals))
         IN IF msg = <<>> THEN Panicked(acc)
            ELSE push_proposals(
                     Accumulate(acc, "sendMlsMessage", << <<"msg", msg[1]>> >>),
                     Tail(proposals))

EmptyLists == [obj_list |-> <<>>, buffers_list |-> <<>>, nbuf |-> 0,
               panic |-> FALSE]

\* A tail of processEvent with the welcome block ahead of the key package
\* block.
format_response_welcome_first(ret) ==
    IF ret = <<>> THEN EmptyLists
    ELSE push_proposals(
             push_key_package(
                 push_welcome(
                     push_safety_number(EmptyLists, ret[1]), ret[1]), ret[1]),
             ret[1].proposals)

\* The tail of processEvent: ret is None or Some(WorkerResponse).
format_response(ret) ==
    IF ret = <<>> THEN EmptyLists
    ELSE push_proposals(
             push_welcome(
                 push_key_package(
                     push_safety_number(EmptyLists, ret[1]), ret[1]), ret[1]),
             ret[1].proposals)

\* The array [objs, payloads] processEvent returns.
ReplyOf(lists) == <<lists.obj_list, lists.buffers_list>>
NoReply == <<>>

\* ------------------------------------------------------- command dispatch
\* What the synchronous head of processEvent decides: the panic it ends
\* with (or "none"), the GroupEngine operations it invokes, whether the
\* reader and the writer were acquired, and the transform it binds.
Decision(fault, ops, reader, writer, f) ==
    [fault |-> fault, ops |-> ops, reader |-> reader, writer |-> writer,
     f |-> f]
Abort(fault) == Decision(fault, <<>>, FALSE, FALSE, "none")

\* A stream arm that builds the reader as soon as "in" is cast, before it
\* looks at "out".
stream_command_reader_first(event, ty) ==
    IF event.in.t # "ReadableStream" THEN Abort("MalformedEventFault")
    ELSE IF event.in.locked THEN Abort("StreamLockFault")
    ELSE IF event.out.t # "WritableStream"
         THEN Decision("MalformedEventFault", <<>>, TRUE, FALSE, "none")
    ELSE IF event.out.locked
         THEN Decision("StreamLockFault", <<>>, TRUE, FALSE, "none")
    ELSE Decision("none", <<>>, TRUE, TRUE,
                  IF ty = "encryptStream" THEN "encrypt_msg"
                  ELSE "decrypt_msg")

\* A stream arm that also starts a fresh session, as the "initialize" arm
\* does.
stream_command_new_session(event, ty) ==
    IF event.in.t # "ReadableStream" THEN Abort("MalformedEventFault")
    ELSE IF event.out.t # "WritableStream" THEN Abort("MalformedEventFault")
    ELSE IF event.in.locked THEN Abort("StreamLockFault")
    ELSE IF event.out.locked
         THEN Decision("StreamLockFault", <<>>, TRUE, FALSE, "none")
    ELSE Decision("none", <<EngineOp("new_state", "", <<>>)>>, TRUE, TRUE,
                  IF ty = "encryptStream" THEN "encrypt_msg"
                  ELSE "decrypt_msg")

\* A stream arm whose test of ty is inverted.
stream_command_swapped(event, ty) ==
    IF event.in.t # "ReadableStream" THEN Abort("MalformedEventFault")
    ELSE IF event.out.t # "WritableStream" THEN Abort("MalformedEventFault")
    ELSE IF event.in.locked THEN Abort("StreamLockFault")
    ELSE IF event.out.locked
         THEN Decision("StreamLockFault", <<>>, TRUE, FALSE, "none")
    ELSE Decision("none", <<>>, TRUE, TRUE,
                  IF ty # "encryptStream" THEN "encrypt_msg"
                  ELSE "decrypt_msg")

\* The "encryptStream" | "decryptStream" arm.
stream_command(event, ty) ==
    IF event.in.t # "ReadableStream" THEN Abort("MalformedEventFault")
    ELSE IF event.out.t # "WritableStream" THEN Abort("MalformedEventFault")
    ELSE IF event.in.locked THEN Abort("StreamLockFault")
    ELSE IF event.out.locked
         THEN Decision("StreamLockFault", <<>>, TRUE, FALSE, "none")
    ELSE Decision("none", <<>>, TRUE, TRUE,
                  IF ty = "encryptStream" THEN "encrypt_msg"
                  ELSE "decrypt_msg")

\* The "initialize" and "initializeAndCreateGroup" arms.
identity_command(event, op) ==
    LET user_id == as_string(event.id)
    IN IF user_id = <<>> THEN Abort("MalformedEventFault")
       ELSE Decision("none", <<EngineOp(op, user_id[1], <<>>)>>,
                     FALSE, FALSE, "none")

\* The "userJoined" arm.
user_joined_command(event) ==
    IF event.keyPkg.t # "ArrayBuffer" THEN Abort("MalformedEventFault")
    ELSE Decision("none",
                  <<EngineOp("add_user", "", CopyBytes(event.keyPkg.bytes))>>,
                  FALSE, FALSE, "none")

\* A match whose last arm is "initialize" | _ instead of a panic.
dispatch_default_arm(event) ==
    LET ty == as_string(event.type)
    IN IF ty = <<>> THEN Abort("MalformedEventFault")
       ELSE CASE ty[1] \in {"encryptStream", "decryptStream"} ->
                    stream_command(event, ty[1])
              [] ty[1] = "initializeAndCreateGroup" ->
                    identity_command(event, "new_state_and_start_group")
              [] ty[1] = "userJoined" -> user_joined_command(event)
              [] OTHER -> identity_command(event, "new_state")

\* The decoding of "type" and the match on it.
dispatch(event) ==
    LET ty == as_string(event.type)
    IN IF ty = <<>> THEN Abort("MalformedEventFault")
       ELSE CASE ty[1] \in {"encryptStream", "decryptStream"} ->
                    stream_command(event, ty[1])
              [] ty[1] = "initialize" -> identity_command(event, "new_state")
              [] ty[1] = "initializeAndCreateGroup" ->
                    identity_command(event, "new_state_and_start_group")
              [] ty[1] = "userJoined" -> user_joined_command(event)
              [] OTHER -> Abort("UnknownCommandFault")

\* ------------------------------------------------------------------ state
VARIABLES
    engine,   \* the GroupEngine's session state (one per worker instance)
    call      \* call[c]: the processEvent call in slot c

vars == <<engine, call>>

NoEvent == [type |-> JsUndefinedStr, id |-> JsUndefinedStr,
            keyPkg |-> JsUndefinedBuf, in |-> JsUndefinedIn,
            out |-> JsUndefinedOut]

IdleCall ==
    [status |-> "idle",         \* idle, running, replied, faulted
     event |-> NoEvent,
     fault |-> "none",
     ret |-> <<>>,              \* the handler's Option<WorkerResponse>
     reply |-> NoReply,         \* the array returned to the host
     ops |-> <<>>,              \* GroupEngine operations this call invoked
     engine0 |-> NoSession,     \* the session state when the call began
     reader |-> FALSE,          \* the input stream is locked by our reader
     writer |-> FALSE,          \* the output stream is locked by our writer
     f |-> "none",              \* the transform process_stream was given
     pc |-> "none",             \* none, awaitRead, awaitWrite
     inq |-> <<>>,              \* chunks the input stream still holds
     frame |-> Undefined,       \* the value of the last read result
     done_reading |-> FALSE,
     nreads |-> 0,              \* reads issued
     ncompleted |-> 0,          \* read results received
     nextract |-> 0,            \* calls of get_frame_data
     napplied |-> 0,            \* applications of the transform
     output |-> <<>>,           \* frames handed to writer.write, in order
     nacks |-> 0,               \* writes acknowledged
     out_closed |-> FALSE,      \* the output stream was closed or aborted
     overlapped |-> FALSE]      \* it shared the worker with another call

Init == engine = NoSession /\ call = [c \in Calls |-> IdleCall]

\* The host posts one command at a time and takes its outcome before the
\* next.
HostIdle == \A d \in Calls : call[d].status = "idle"

RECURSIVE ApplyOps(_, _)
ApplyOps(eng, ops) ==
    IF ops = <<>> THEN eng ELSE ApplyOps(ApplyOp(eng, Head(ops)), Tail(ops))

\* A match whose "initialize" arm calls new_state, drops what it returns
\* and evaluates to None.
handler_result_initialize_none(d, resp) ==
    IF d.f # "none" \/ d.ops[1].op = "new_state" THEN <<>> ELSE <<resp>>

\* `ret`, the value of the match: None from the stream arm, Some(what the
\* GroupEngine operation returned) from every lifecycle arm.
handler_result(d, resp) ==
    IF d.f # "none" THEN <<>> ELSE <<resp>>

\* The call as processEvent leaves it at its first suspension or at its end.
Begun(event, resp, eng) ==
    LET d == dispatch(event)
        base == [IdleCall EXCEPT !.event = event, !.engine0 = eng,
                                 !.reader = d.reader, !.writer = d.writer]
        ret == handler_result(d, resp)
        lists == format_response(ret)
    IN IF d.fault # "none"
       THEN [base EXCEPT !.status = "faulted", !.fault = d.fault]
       ELSE IF d.f # "none"
       THEN [base EXCEPT !.status = "running", !.f = d.f,
                         !.ops = d.ops,
                         !.pc = "awaitRead", !.nreads = 1,
                         !.inq = event.in.chunks]
       ELSE IF lists.panic
       THEN [base EXCEPT !.status = "faulted",
                         !.fault = "SerializationFault",
                         !.ops = d.ops, !.ret = ret]
       ELSE [base EXCEPT !.status = "replied", !.ops = d.ops,
                         !.ret = ret, !.reply = ReplyOf(lists)]

\* What the GroupEngine may return to this call: any WorkerResponse when
\* the call reaches one of its operations, nothing to choose otherwise.
AbsentResponse == [new_safety_number |-> <<>>, key_pkg |-> <<>>,
                   welcome |-> <<>>, proposals |-> <<>>]
EngineReturns(event) ==
    IF dispatch(event).ops # <<>> THEN WorkerResponse ELSE {AbsentResponse}

\* One invocation of processEvent(event) in slot c, run to its first
\* suspension or to its end: resp is what the GroupEngine operation returns.
HandledWith(c, event, resp) ==
    LET b == Begun(event, resp, engine)
    IN /\ call' = [call EXCEPT ![c] = b]
       /\ engine' = ApplyOps(engine, b.ops)

Handled(c) ==
    \E event \in Events : \E resp \in EngineReturns(event) :
        HandledWith(c, event, resp)

\* A call is kept in the first slot that is free.
FirstFree(c) ==
    /\ call[c].status = "idle"
    /\ \A d \in Calls : d < c => call[d].status # "idle"

\* processEvent(event), posted by a host that waits for the previous call.
processEvent(c) ==
    /\ HostIdle
    /\ FirstFree(c)
    /\ Handled(c)

\* reader.read() resolves: {value, done}.
read_result(inq) ==
    IF inq = <<>> THEN [value |-> Undefined, done |-> TRUE]
    ELSE [value |-> Head(inq), done |-> FALSE]

\* A writer.write_with_chunk(&frame) whose promise is not awaited: the loop
\* goes straight on to the next read.
issue_write_unawaited(k, frame) ==
    [k EXCEPT !.frame = Undefined, !.output = Append(@, frame),
              !.pc = "awaitRead", !.nreads = @ + 1]

\* writer.write_with_chunk(&frame), then the await of its promise.
issue_write(k, frame) ==
    [k EXCEPT !.frame = frame, !.output = Append(@, frame),
              !.pc = "awaitWrite"]

\* A loop body with one more await, between set_frame_data and
\* writer.write().
AfterRead_yield_before_write(k, res) ==
    LET seen == [k EXCEPT !.done_reading = res.done, !.frame = res.value,
                          !.ncompleted = @ + 1, !.nextract = @ + 1,
                          !.inq = IF @ = <<>> THEN @ ELSE Tail(@)]
        frame_data == get_frame_data(res.value)
        new_frame_data == ApplyTransform(k.f, frame_data[1])
        written == set_frame_data(res.value, new_frame_data)
    IN IF frame_data = <<>>
       THEN [seen EXCEPT !.status = "faulted", !.pc = "none",
                         !.fault = "UnrecognizedFrameTypeFault"]
       ELSE IF written = <<>>
       THEN [seen EXCEPT !.status = "faulted", !.pc = "none",
                         !.napplied = @ + 1,
                         !.fault = "UnrecognizedFrameTypeFault"]
       ELSE [seen EXCEPT !.napplied = @ + 1, !.frame = written[1],
                         !.pc = "awaitYield"]

\* A loop body that tests done_reading first and breaks before it touches
\* the value.
AfterRead_done_first(k, res) ==
    LET seen == [k EXCEPT !.done_reading = res.done, !.frame = res.value,
                          !.ncompleted = @ + 1,
                          !.inq = IF @ = <<>> THEN @ ELSE Tail(@)]
        frame_data == get_frame_data(res.value)
        new_frame_data == ApplyTransform(k.f, frame_data[1])
        written == set_frame_data(res.value, new_frame_data)
    IN IF res.done
       THEN [seen EXCEPT !.status = "replied", !.pc = "none",
                         !.ret = <<>>,
                         !.reply = ReplyOf(format_response(<<>>))]
       ELSE IF frame_data = <<>>
       THEN [seen EXCEPT !.status = "faulted", !.pc = "none",
                         !.nextract = @ + 1,
                         !.fault = "UnrecognizedFrameTypeFault"]
       ELSE IF written = <<>>
       THEN [seen EXCEPT !.status = "faulted", !.pc = "none",
                         !.nextract = @ + 1, !.napplied = @ + 1,
                         !.fault = "UnrecognizedFrameTypeFault"]
       ELSE issue_write([seen EXCEPT !.nextract = @ + 1,
                                     !.napplied = @ + 1], written[1])

\* A loop body that, on done = true, closes the writer and releases both
\* locks before it goes on.
AfterRead_close_on_done(k, res) ==
    LET seen == [k EXCEPT !.done_reading = res.done, !.frame = res.value,
                          !.ncompleted = @ + 1, !.nextract = @ + 1,
                          !.out_closed = res.done,
                          !.reader = ~res.done, !.writer = ~res.done,
                          !.inq = IF @ = <<>> THEN @ ELSE Tail(@)]
        frame_data == get_frame_data(res.value)
        new_frame_data == ApplyTransform(k.f, frame_data[1])
        written == set_frame_data(res.value, new_frame_data)
    IN IF frame_data = <<>>
       THEN [seen EXCEPT !.status = "faulted", !.pc = "none",
                         !.fault = "UnrecognizedFrameTypeFault"]
       ELSE IF written = <<>>
       THEN [seen EXCEPT !.status = "faulted", !.pc = "none",
                         !.napplied = @ + 1,
                         !.fault = "UnrecognizedFrameTypeFault"]
       ELSE issue_write([seen EXCEPT !.napplied = @ + 1], written[1])

\* One pass of the loop body from the read result to writer.write().
AfterRead(k, res) ==
    LET seen == [k EXCEPT !.done_reading = res.done, !.frame = res.value,
                          !.ncompleted = @ + 1, !.nextract = @ + 1,
                          !.inq = IF @ = <<>> THEN @ ELSE Tail(@)]
        frame_data == get_frame_data(res.value)
        new_frame_data == ApplyTransform(k.f, frame_data[1])
        written == set_frame_data(res.value, new_frame_data)
    IN IF frame_data = <<>>
       THEN [seen EXCEPT !.status = "faulted", !.pc = "none",
                         !.fault = "UnrecognizedFrameTypeFault"]
       ELSE IF written = <<>>
       THEN [seen EXCEPT !.status = "faulted", !.pc = "none",
                         !.napplied = @ + 1,
                         !.fault = "UnrecognizedFrameTypeFault"]
       ELSE issue_write([seen EXCEPT !.napplied = @ + 1], written[1])

ReadResolved(c) ==
    /\ call[c].status = "running" /\ call[c].pc = "awaitRead"
    /\ call' = [call EXCEPT ![c] = AfterRead(call[c], read_result(call[c].inq))]
    /\ UNCHANGED engine

\* The read promise rejects: JsFuture::from(promise).await.unwrap() panics.
ReadRejected(c) ==
    /\ call[c].status = "running" /\ call[c].pc = "awaitRead"
    /\ call' = [call EXCEPT ![c] = [@ EXCEPT !.status = "faulted",
                                             !.pc = "none",
                                             !.fault = "StreamIoFault"]]
    /\ UNCHANGED engine

\* A loop whose test after the write is `if !done_reading { break; }`.
AfterWrite_break_inverted(k) ==
    LET acked == [k EXCEPT !.nacks = @ + 1]
    IN IF ~k.done_reading
       THEN [acked EXCEPT !.status = "replied", !.pc = "none",
                          !.ret = <<>>,
                          !.reply = ReplyOf(format_response(<<>>))]
       ELSE [acked EXCEPT !.pc = "awaitRead", !.nreads = @ + 1,
                          !.frame = Undefined]

\* The loop after the write is acknowledged: break and format the reply of
\* a handler that returned None, or issue the next read.
AfterWrite(k) ==
    LET acked == [k EXCEPT !.nacks = @ + 1]
    IN IF k.done_reading
       THEN [acked EXCEPT !.status = "replied", !.pc = "none",
                          !.ret = <<>>,
                          !.reply = ReplyOf(format_response(<<>>))]
       ELSE [acked EXCEPT !.pc = "awaitRead", !.nreads = @ + 1,
                          !.frame = Undefined]

WriteAcked(c) ==
    /\ call[c].status = "running" /\ call[c].pc = "awaitWrite"
    /\ call' = [call EXCEPT ![c] = AfterWrite(call[c])]
    /\ UNCHANGED engine

\* The write promise rejects.
WriteRejected(c) ==
    /\ call[c].status = "running" /\ call[c].pc = "awaitWrite"
    /\ call' = [call EXCEPT ![c] = [@ EXCEPT !.status = "faulted",
                                             !.pc = "none",
                                             !.fault = "StreamIoFault"]]
    /\ UNCHANGED engine

\* The host takes the outcome (the reply, or the rejection) of a call.
Collect(c) ==
    /\ call[c].status \in {"replied", "faulted"}
    /\ call' = [call EXCEPT ![c] = IdleCall]
    /\ UNCHANGED engine

Next ==
    \E c \in Calls :
        \/ processEvent(c)
        \/ ReadResolved(c)
        \/ ReadRejected(c)
        \/ WriteAcked(c)
        \/ WriteRejected(c)
        \/ Collect(c)

Spec == Init /\ [][Next]_vars

\* processEvent(event), posted while a stream command of this worker is
\* suspended at one of its awaits: the worker runs it at once, whatever it
\* is, for nothing in processEvent tests whether a call is in progress.
\* The host posts early only while the bound stream is the one call in
\* flight.  overlapped marks the
\* calls that shared the worker: the one that was suspended and the one
\* that came in.
\* What the host posts early is one event for every way through the head
\* of processEvent: a command with its own fields and no others, at most one
\* of them absent or unusable, an input stream holding at most one chunk;
\* and the GroupEngine answers with at most one field set.
MalformedAt(e) ==
    {f \in {"type", "id", "keyPkg", "in", "out"} :
        \/ f = "type" /\ as_string(e.type) = <<>>
        \/ f = "id" /\ TypeIs(e, {"initialize", "initializeAndCreateGroup"})
                    /\ as_string(e.id) = <<>>
        \/ f = "keyPkg" /\ TypeIs(e, {"userJoined"})
                        /\ e.keyPkg.t # "ArrayBuffer"
        \/ f = "in" /\ TypeIs(e, StreamTypes)
                    /\ (e.in.t # "ReadableStream" \/ e.in.locked)
        \/ f = "out" /\ TypeIs(e, StreamTypes)
                     /\ (e.out.t # "WritableStream" \/ e.out.locked)}
UnusedFields(e) ==
    {"id", "keyPkg", "in", "out"} \
        (CASE TypeIs(e, {"initialize", "initializeAndCreateGroup"}) -> {"id"}
           [] TypeIs(e, {"userJoined"}) -> {"keyPkg"}
           [] TypeIs(e, StreamTypes) -> {"in", "out"}
           [] OTHER -> {})
OverlapEvents ==
    {e \in Events :
        /\ \A f \in UnusedFields(e) : e[f] = NoEvent[f]
        /\ Cardinality(MalformedAt(e)) <= 1
        /\ Len(e.in.chunks) <= 1}
FieldsSet(r) ==
    (IF r.new_safety_number = <<>> THEN 0 ELSE 1)
    + (IF r.key_pkg = <<>> THEN 0 ELSE 1)
    + (IF r.welcome = <<>> THEN 0 ELSE 1)
    + Len(r.proposals)
OverlapReturns(event) ==
    {r \in EngineReturns(event) : FieldsSet(r) <= 1}

processEventWhileBound(c) ==
    /\ FirstFree(c)
    /\ \E d \in Calls :
          /\ call[d].status = "running"
          /\ \A e \in Calls \ {d} : call[e].status = "idle"
    /\ \E event \in OverlapEvents : \E resp \in OverlapReturns(event) :
          LET b == Begun(event, resp, engine)
          IN /\ call' = [d \in Calls |->
                            IF d = c THEN [b EXCEPT !.overlapped = TRUE]
                            ELSE IF call[d].status = "running"
                            THEN [call[d] EXCEPT !.overlapped = TRUE]
                            ELSE call[d]]
             /\ engine' = ApplyOps(engine, b.ops)

\* The worker under a host that does not wait for a stream command to end.
NextOverlap ==
    \E c \in Calls :
        \/ processEvent(c)
        \/ processEventWhileBound(c)
        \/ ReadResolved(c)
        \/ ReadRejected(c)
        \/ WriteAcked(c)
        \/ WriteRejected(c)
        \/ Collect(c)

SpecOverlap == Init /\ [][NextOverlap]_vars

\* ================================================================ claims
AllSupported(q) == \A i \in 1..Len(q) : q[i].kind \in {"audio", "video"}

\* C1: a stream of N supported frames is written as exactly those N frames,
\* in input order, the i-th with payload transform(i-th input payload);
\* nothing else is written, and all N are written once end-of-stream is seen.
C1_FramesInOrder ==
    \A c \in Calls :
        LET k == call[c]
            q == k.event.in.chunks
        IN (k.f # "none" /\ AllSupported(q)) =>
              /\ Len(k.output) <= Len(q)
              /\ \A i \in 1..Len(k.output) :
                    /\ k.output[i].id = q[i].id
                    /\ k.output[i].data = ApplyTransform(k.f, q[i].data)
              /\ k.done_reading => Len(k.output) = Len(q)

C1_Witness ==
    \E c \in Calls :
        /\ call[c].f = "encrypt_msg" /\ call[c].done_reading
        /\ AllSupported(call[c].event.in.chunks)
        /\ Len(call[c].output) = 2
        /\ call[c].output[1].data # call[c].output[2].data

\* C2: once end-of-stream (done = true, no value) is observed on a stream of
\* supported frames whose reads and writes were all answered, process_stream
\* has raised no fault.
C2_ReturnsAtEndOfStream ==
    \A c \in Calls :
        LET k == call[c]
        IN (/\ k.f # "none" /\ AllSupported(k.event.in.chunks)
            /\ k.done_reading /\ k.fault # "StreamIoFault")
           => k.fault = "none"

\* C3: at most one frame is in flight: a read is issued only when every
\* earlier write has been acknowledged, and at most one written frame awaits
\* its acknowledgment.
C3_OneFrameInFlight ==
    \A c \in Calls :
        LET k == call[c]
        IN k.f # "none" =>
              /\ k.nreads <= k.nacks + 1
              /\ Len(k.output) - k.nacks \in {0, 1}
              /\ k.pc = "awaitRead" => Len(k.output) = k.nacks

C3_Witness ==
    \E c \in Calls :
        /\ call[c].pc = "awaitRead" /\ call[c].nreads = 2
        /\ call[c].nacks = 1 /\ Len(call[c].output) = 1

\* What the host sees of an envelope: its type, its field names in order and
\* the bytes of each field.
EnvelopeView(o) ==
    [type |-> o.type,
     names |-> [i \in 1..Len(o.fields) |-> o.fields[i].name],
     bytes |-> [i \in 1..Len(o.fields) |-> o.fields[i].value.bytes]]
Envelope(type, names, bytes) == [type |-> type, names |-> names, bytes |-> bytes]
Wire(o) == tls_serialize_detached(o)[1]

\* The envelope list the specification prescribes for an aggregate.
PrescribedEnvelopes(resp) ==
    (IF resp.new_safety_number = <<>> THEN <<>>
     ELSE <<Envelope("newSafetyNumber", <<"hash">>,
                     <<resp.new_safety_number[1]>>)>>)
    \o (IF resp.key_pkg = <<>> THEN <<>>
        ELSE <<Envelope("shareKeyPackage", <<"keyPkg">>,
                        <<Wire(resp.key_pkg[1])>>)>>)
    \o (IF resp.welcome = <<>> THEN <<>>
        ELSE <<Envelope("sendMlsWelcome", <<"welcome", "rtree">>,
                        <<Wire(resp.welcome[1].welcome),
                          Wire(resp.welcome[1].ratchet_tree)>>)>>)
    \o [i \in 1..Len(resp.proposals) |->
           Envelope("sendMlsMessage", <<"msg">>, <<Wire(resp.proposals[i])>>)]

\* C4: the envelope list of a reply is newSafetyNumber{hash}, then
\* shareKeyPackage{keyPkg}, then sendMlsWelcome{welcome, rtree}, each iff its
\* field is present, then one sendMlsMessage{msg} per proposal in order, and
\* nothing else.
C4_EnvelopeOrder ==
    \A c \in Calls :
        LET k == call[c]
        IN (k.status = "replied" /\ k.ret # <<>>) =>
              [i \in 1..Len(k.reply[1]) |-> EnvelopeView(k.reply[1][i])]
                  = PrescribedEnvelopes(k.ret[1])

C4_Witness ==
    \E c \in Calls :
        /\ call[c].status = "replied" /\ call[c].ret # <<>>
        /\ call[c].ret[1].new_safety_number # <<>>
        /\ call[c].ret[1].key_pkg # <<>>
        /\ call[c].ret[1].welcome # <<>>
        /\ Len(call[c].ret[1].proposals) = 2
        /\ call[c].ret[1].proposals[1] # call[c].ret[1].proposals[2]
        /\ Len(call[c].reply[1]) = 5

\* The field values of the envelopes, envelope by envelope, field by field.
RECURSIVE Flatten(_)
Flatten(lists) ==
    IF lists = <<>> THEN <<>> ELSE Head(lists) \o Flatten(Tail(lists))
FieldValues(o) == [i \in 1..Len(o.fields) |-> o.fields[i].value]
FlatFieldValues(objs) == Flatten([i \in 1..Len(objs) |-> FieldValues(objs[i])])

\* C5 as stated: the buffers list of a reply is itself the flat sequence of
\* the envelopes' binary field values, one element per field.
C5_BuffersAreFlat ==
    \A c \in Calls :
        call[c].status = "replied" =>
            /\ call[c].reply[2] = FlatFieldValues(call[c].reply[1])
            /\ Len(call[c].reply[2]) = Len(FlatFieldValues(call[c].reply[1]))

\* C5 as amended: the buffers list of a reply holds one list per envelope;
\* those lists, concatenated in order, are the flat sequence of the envelopes'
\* binary field values (the same buffers, in the same order), so the total
\* number of buffers is the total number of fields.
C5_BuffersFlattenToFields ==
    \A c \in Calls :
        call[c].status = "replied" =>
            /\ Flatten(call[c].reply[2]) = FlatFieldValues(call[c].reply[1])
            /\ Len(call[c].reply[2]) = Len(call[c].reply[1])

C5_Witness ==
    \E c \in Calls :
        /\ call[c].status = "replied"
        /\ Len(call[c].reply[1]) = 5
        /\ Len(Flatten(call[c].reply[2])) = 6
        /\ [i \in 1..6 |-> Flatten(call[c].reply[2])[i].bytes]
              = << <<10>>, <<1, 20>>, <<2, 30, 31>>, <<1, 40>>,
                   <<1, 50>>, <<1, 51>> >>

AllAbsent(resp) ==
    /\ resp.new_safety_number = <<>> /\ resp.key_pkg = <<>>
    /\ resp.welcome = <<>> /\ resp.proposals = <<>>

\* C6: with no aggregate, or an aggregate with every field absent, the reply
\* is exactly ([], []).
C6_EmptyReply ==
    \A c \in Calls :
        LET k == call[c]
        IN (k.status = "replied" /\ (k.ret = <<>> \/ AllAbsent(k.ret[1])))
              => k.reply = << <<>>, <<>> >>

C6_Witness ==
    \E c \in Calls :
        /\ call[c].status = "replied" /\ call[c].ret # <<>>
        /\ AllAbsent(call[c].ret[1])
        /\ call[c].ops # <<>>
        /\ call[c].reply = << <<>>, <<>> >>

\* The call did nothing beyond failing: no GroupEngine operation, the session
\* state as it was, no reader or writer acquired, no read issued, nothing
\* written, no reply.
AbortedEntirely(k) ==
    /\ k.status = "faulted"
    /\ k.ops = <<>> /\ engine = k.engine0
    /\ ~k.reader /\ ~k.writer /\ k.f = "none"
    /\ k.nreads = 0 /\ k.output = <<>> /\ k.nacks = 0
    /\ k.reply = NoReply

TypeAbsent(event) == event.type.t # "string"
TypeUnknown(event) == event.type.t = "string" /\ event.type.s \notin KnownTypes

\* C7 as stated: an absent type, or a type string that is none of the five,
\* ends the call with UnknownCommandFault, aborted entirely.
C7_AbsentOrUnknownIsUnknownCommand ==
    \A c \in Calls :
        LET k == call[c]
        IN (k.status # "idle" /\ (TypeAbsent(k.event) \/ TypeUnknown(k.event)))
              => (k.fault = "UnknownCommandFault" /\ AbortedEntirely(k))

\* C7 as amended: a type string that is none of the five ends the call with
\* UnknownCommandFault; an absent (or non-string) type ends it with
\* MalformedEventFault, when the type is decoded, before the match; in both
\* cases the call is aborted entirely.
C7_UnknownOrUndecodableType ==
    \A c \in Calls :
        LET k == call[c]
        IN /\ (k.status # "idle" /\ TypeUnknown(k.event))
                 => (k.fault = "UnknownCommandFault" /\ AbortedEntirely(k))
           /\ (k.status # "idle" /\ TypeAbsent(k.event))
                 => (k.fault = "MalformedEventFault" /\ AbortedEntirely(k))

C7_Witness ==
    \E c \in Calls :
        /\ call[c].status = "faulted"
        /\ call[c].event.type = [t |-> "string", s |-> "bogus"]
        /\ call[c].event.in.t = "ReadableStream" /\ ~call[c].event.in.locked
        /\ call[c].event.out.t = "WritableStream" /\ ~call[c].event.out.locked
        /\ call[c].fault = "UnknownCommandFault"


\* A required field of the command is absent or of the wrong shape.
FieldMalformed(event) ==
    \/ /\ TypeIs(event, {"initialize", "initializeAndCreateGroup"})
       /\ event.id.t # "string"
    \/ /\ TypeIs(event, {"userJoined"})
       /\ event.keyPkg.t # "ArrayBuffer"
    \/ /\ TypeIs(event, StreamTypes)
       /\ (event.in.t # "ReadableStream" \/ event.out.t # "WritableStream")

\* C8: a known type with a required field absent or of the wrong shape ends
\* the call with MalformedEventFault and no partial handling.
C8_MalformedFieldAborts ==
    \A c \in Calls :
        LET k == call[c]
        IN (k.status # "idle" /\ FieldMalformed(k.event))
              => (k.fault = "MalformedEventFault" /\ AbortedEntirely(k))

C8_Witness ==
    \E c \in Calls :
        /\ call[c].status = "faulted"
        /\ TypeIs(call[c].event, StreamTypes)
        /\ call[c].event.in.t = "ReadableStream" /\ ~call[c].event.in.locked
        /\ call[c].event.out.t # "WritableStream"
        /\ call[c].fault = "MalformedEventFault"

\* A command of a known type with every required field of the right shape
\* (and, for a stream command, streams that can still be locked).
ValidCommand(event) ==
    \/ /\ TypeIs(event, {"initialize", "initializeAndCreateGroup"})
       /\ event.id.t = "string"
    \/ /\ TypeIs(event, {"userJoined"})
       /\ event.keyPkg.t = "ArrayBuffer"
    \/ /\ TypeIs(event, StreamTypes)
       /\ event.in.t = "ReadableStream" /\ ~event.in.locked
       /\ event.out.t = "WritableStream" /\ ~event.out.locked

\* The GroupEngine operation the specification assigns to a command.
PrescribedOps(event) ==
    CASE event.type.s = "initialize" ->
            <<EngineOp("new_state", event.id.s, <<>>)>>
      [] event.type.s = "initializeAndCreateGroup" ->
            <<EngineOp("new_state_and_start_group", event.id.s, <<>>)>>
      [] event.type.s = "userJoined" ->
            <<EngineOp("add_user", "", event.keyPkg.bytes)>>
      [] OTHER -> <<>>
PrescribedTransform(event, bytes) ==
    IF event.type.s = "encryptStream" THEN encrypt_msg(bytes)
    ELSE decrypt_msg(bytes)

\* C9: a valid command of each kind raises neither MalformedEventFault nor
\* UnknownCommandFault and invokes exactly the GroupEngine operation of its
\* kind: the lifecycle operation once with the command's argument, or, for a
\* stream command, encrypt (decrypt) on the payload of each frame it writes
\* from "in" to "out".
C9_ValidCommandsDispatch ==
    \A c \in Calls :
        LET k == call[c]
            q == k.event.in.chunks
        IN (k.status # "idle" /\ ValidCommand(k.event)) =>
              /\ k.fault \notin {"MalformedEventFault", "UnknownCommandFault"}
              /\ k.ops = PrescribedOps(k.event)
              /\ engine = ApplyOps(k.engine0, PrescribedOps(k.event))
              /\ TypeIs(k.event, StreamTypes) <=> (k.reader /\ k.writer)
              /\ ~TypeIs(k.event, StreamTypes)
                    => (k.nreads = 0 /\ k.output = <<>>)
              /\ \A i \in 1..Len(k.output) :
                    /\ k.output[i].id = q[i].id
                    /\ k.output[i].data = PrescribedTransform(k.event, q[i].data)

C9_Witness ==
    \E c \in Calls :
        /\ ValidCommand(call[c].event)
        /\ call[c].event.type.s = "decryptStream"
        /\ Len(call[c].output) = 2 /\ call[c].nacks = 2
        /\ call[c].output[2].data = <<3>>

\* C10: a read frame that is neither audio nor video raises
\* UnrecognizedFrameTypeFault before the transform is applied to it; nothing
\* is written for it, no later read or write is issued, and the frames written
\* before it stay as they were emitted.
C10_AtFault ==
    \A c \in Calls :
        LET k == call[c]
            q == k.event.in.chunks
        IN (k.f # "none" /\ k.frame.kind = "other") =>
              /\ k.status = "faulted"
              /\ k.fault = "UnrecognizedFrameTypeFault"
              /\ k.reply = NoReply
              /\ k.nreads = k.frame.id
              /\ Len(k.output) = k.frame.id - 1
              /\ k.napplied = k.frame.id - 1
              /\ k.nacks = k.frame.id - 1
              /\ \A i \in 1..Len(k.output) :
                    /\ k.output[i].id = q[i].id
                    /\ k.output[i].data = ApplyTransform(k.f, q[i].data)
C10_AfterFault ==
    \A c \in Calls :
        call[c].fault = "UnrecognizedFrameTypeFault"
            => call'[c] \in {call[c], IdleCall}
\* C10: in every state the fault has the shape above, and once raised the
\* call takes no further step (it is only taken away by the host).
C10_UnrecognizedFrameAborts == []C10_AtFault /\ [][C10_AfterFault]_vars

C10_Witness ==
    \E c \in Calls :
        /\ call[c].fault = "UnrecognizedFrameTypeFault"
        /\ call[c].frame.kind = "other" /\ call[c].frame.id = 2
        /\ Len(call[c].output) = 1 /\ ~call[c].done_reading

\* C11 as stated: while a stream command is bound, no other processEvent
\* call has begun handling a command, and the GroupEngine state is the one
\* the stream was bound with.
C11_OneCommandAtATime ==
    \A c \in Calls :
        call[c].status = "running" =>
            /\ \A d \in Calls \ {c} : call[d].status = "idle"
            /\ engine = call[c].engine0

\* C11 as amended: the worker does not serialize commands; only a stream
\* command that shared the worker with no other call (nothing was posted
\* while it was bound, and it was not posted while another was) has every
\* other slot idle and the GroupEngine state it was bound with (the stream
\* command itself never changes it).
C11_AloneUnlessHostOverlaps ==
    \A c \in Calls :
        (call[c].status = "running" /\ ~call[c].overlapped) =>
            /\ \A d \in Calls \ {c} : call[d].status = "idle"
            /\ call[c].ops = <<>>
            /\ engine = call[c].engine0

C11_Witness ==
    \E c \in Calls :
        /\ call[c].status = "running" /\ ~call[c].overlapped
        /\ call[c].pc = "awaitRead" /\ call[c].nacks = 1
        /\ call[c].engine0.members # {}
        /\ engine = call[c].engine0

\* C12: a stream command has a reply only once a read result with
\* done = true has been observed; while it runs, and when it ends by a
\* fault, it has none.
C12_NoReplyBeforeEndOfStream ==
    \A c \in Calls :
        LET k == call[c]
        IN TypeIs(k.event, StreamTypes) =>
              /\ k.status = "replied" => k.done_reading
              /\ k.reply # NoReply => (k.status = "replied" /\ k.done_reading)
              /\ k.status \in {"running", "faulted"} => k.reply = NoReply

C12_Witness ==
    \E c \in Calls :
        /\ TypeIs(call[c].event, StreamTypes)
        /\ call[c].status = "running" /\ call[c].pc = "awaitRead"
        /\ call[c].nacks = 2 /\ ~call[c].done_reading
        /\ call[c].reply = NoReply

IsInitialize(k) == TypeIs(k.event, {"initialize"}) /\ k.ops # <<>>
EnvelopeTypes(reply) == {reply[1][i].type : i \in 1..Len(reply[1])}

\* C13 as stated: an initialize command hands no aggregate to the marshaler
\* and its reply is always ([], []), with no "shareKeyPackage" envelope.
C13_InitializeAcknowledgesOnly ==
    \A c \in Calls :
        LET k == call[c]
        IN (IsInitialize(k) /\ k.status = "replied") =>
              /\ k.ret = <<>>
              /\ k.reply = << <<>>, <<>> >>
              /\ "shareKeyPackage" \notin EnvelopeTypes(k.reply)

\* C13 as amended: an initialize command hands what new_state(id) returned to
\* the marshaler; its reply carries the envelopes of that aggregate, a
\* "shareKeyPackage" envelope exactly when the aggregate has a key package,
\* and is ([], []) exactly when every field of the aggregate is absent.
C13_InitializeMarshalsAggregate ==
    \A c \in Calls :
        LET k == call[c]
        IN IsInitialize(k) =>
              /\ k.ops = <<EngineOp("new_state", k.event.id.s, <<>>)>>
              /\ k.ret # <<>>
              /\ k.status = "replied" =>
                    /\ ("shareKeyPackage" \in EnvelopeTypes(k.reply))
                           <=> (k.ret[1].key_pkg # <<>>)
                    /\ (k.reply = << <<>>, <<>> >>) <=> AllAbsent(k.ret[1])

C13_Witness ==
    \E c \in Calls :
        /\ IsInitialize(call[c]) /\ call[c].status = "replied"
        /\ call[c].ret # <<>> /\ call[c].ret[1].key_pkg # <<>>
        /\ Len(call[c].reply[1]) = 1
        /\ EnvelopeView(call[c].reply[1][1])
               = Envelope("shareKeyPackage", <<"keyPkg">>, << <<1, 20>> >>)

\* A field of the aggregate whose serialization fails.
FailsToSerialize(o) == tls_serialize_detached(o) = <<>>
SomeFieldFails(resp) ==
    \/ resp.key_pkg # <<>> /\ FailsToSerialize(resp.key_pkg[1])
    \/ resp.welcome # <<>> /\ FailsToSerialize(resp.welcome[1].welcome)
    \/ resp.welcome # <<>> /\ FailsToSerialize(resp.welcome[1].ratchet_tree)
    \/ \E i \in 1..Len(resp.proposals) : FailsToSerialize(resp.proposals[i])

\* C14: when the serialization of any field of the aggregate fails, the
\* call ends with a fault and has no reply, not even the envelopes built
\* before the failing field.
C14_SerializationFailureAborts ==
    \A c \in Calls :
        LET k == call[c]
        IN (k.status # "idle" /\ k.ret # <<>> /\ SomeFieldFails(k.ret[1])) =>
              /\ k.status = "faulted" /\ k.fault = "SerializationFault"
              /\ k.reply = NoReply

C14_Witness ==
    \E c \in Calls :
        LET k == call[c]
        IN /\ k.status = "faulted" /\ k.fault = "SerializationFault"
           /\ k.ret # <<>> /\ k.ret[1].new_safety_number # <<>>
           /\ k.ret[1].key_pkg # <<>> /\ ~FailsToSerialize(k.ret[1].key_pkg[1])
           /\ k.ret[1].welcome = <<>>
           /\ Len(k.ret[1].proposals) = 2
           /\ ~FailsToSerialize(k.ret[1].proposals[1])
           /\ FailsToSerialize(k.ret[1].proposals[2])
           /\ k.reply = NoReply

\* C15: every object written is the frame object read in that iteration
\* (same identity, same kind, same metadata) with its payload replaced by
\* transform(old payload); the loop holds the frame of the current iteration
\* while its write is pending and no frame when it issues a read.
C15_SameFrameObject ==
    \A c \in Calls :
        LET k == call[c]
            q == k.event.in.chunks
        IN k.f # "none" =>
              /\ \A i \in 1..Len(k.output) :
                    k.output[i] =
                        [q[i] EXCEPT !.data = ApplyTransform(k.f, q[i].data)]
              /\ k.pc = "awaitWrite" => k.frame = k.output[Len(k.output)]
              /\ k.pc = "awaitRead" => k.frame = Undefined

C15_Witness ==
    \E c \in Calls :
        LET k == call[c]
        IN /\ k.f = "encrypt_msg" /\ k.pc = "awaitRead"
           /\ Len(k.output) = 2 /\ k.nacks = 2
           /\ k.output[2].id = 2 /\ k.output[2].timestamp = 180
           /\ k.output[2].data = <<200, 2, 3>>
           /\ k.frame = Undefined

\* C16: a running process_stream is suspended either on its read or on the
\* acknowledgment of its write, and nowhere else; whenever it is suspended,
\* every read result it has received has already gone through extraction,
\* transform, replacement and the issue of its write, so no other event of
\* the worker sees a frame between its read and its write.
C16_TwoSuspensionPoints ==
    \A c \in Calls :
        LET k == call[c]
        IN k.status = "running" =>
              /\ k.pc \in {"awaitRead", "awaitWrite"}
              /\ k.nextract = k.ncompleted
              /\ k.napplied = k.ncompleted
              /\ Len(k.output) = k.ncompleted
              /\ k.pc = "awaitRead" =>
                    (k.nreads = k.ncompleted + 1 /\ k.nacks = k.ncompleted)
              /\ k.pc = "awaitWrite" =>
                    (k.nreads = k.ncompleted /\ k.nacks + 1 = k.ncompleted)

C16_Witness ==
    \E c \in Calls :
        /\ call[c].status = "running" /\ call[c].pc = "awaitWrite"
        /\ call[c].overlapped
        /\ call[c].ncompleted = 2 /\ Len(call[c].output) = 2
        /\ call[c].nacks = 1
        /\ \E d \in Calls : call[d].status = "replied" /\ call[d].ops # <<>>

\* C17: every read result, the one with done = true included, goes through
\* payload extraction before its done flag is tested, so extractions
\* attempted equal reads completed; and a stream command that returned
\* normally has observed done = true and has had a write acknowledged for
\* every read result, that one included.
C17_DoneTestedAfterWrite ==
    \A c \in Calls :
        LET k == call[c]
        IN k.f # "none" =>
              /\ k.nextract = k.ncompleted
              /\ k.done_reading => k.nextract = Len(k.event.in.chunks) + 1
              /\ k.status = "replied" =>
                    /\ k.done_reading
                    /\ Len(k.output) = k.ncompleted
                    /\ k.nacks = k.ncompleted

C17_Witness ==
    \E c \in Calls :
        LET k == call[c]
        IN /\ k.f # "none" /\ k.done_reading
           /\ k.ncompleted = 3 /\ k.nextract = 3
           /\ Len(k.output) = 2 /\ k.nacks = 2
           /\ k.status = "faulted"

BufferCount(o) == IF o.type = "sendMlsWelcome" THEN 2 ELSE 1

\* C18: the buffers list of a reply has one entry per envelope; the i-th
\* entry is the list of the binary field values of the i-th envelope, the
\* same buffer objects: one for newSafetyNumber, shareKeyPackage and
\* sendMlsMessage, two for sendMlsWelcome.
C18_BuffersPerEnvelope ==
    \A c \in Calls :
        LET k == call[c]
        IN k.status = "replied" =>
              /\ Len(k.reply[2]) = Len(k.reply[1])
              /\ \A i \in 1..Len(k.reply[1]) :
                    /\ k.reply[2][i] = FieldValues(k.reply[1][i])
                    /\ Len(k.reply[2][i]) = BufferCount(k.reply[1][i])
              /\ \A i, j \in 1..Len(k.reply[2]) :
                    \A m \in 1..Len(k.reply[2][i]) :
                        \A n \in 1..Len(k.reply[2][j]) :
                            k.reply[2][i][m].buf = k.reply[2][j][n].buf
                                => (i = j /\ m = n)

C18_Witness ==
    \E c \in Calls :
        LET k == call[c]
        IN /\ k.status = "replied" /\ Len(k.reply[1]) = 5
           /\ Len(k.reply[2]) = 5
           /\ k.reply[1][3].type = "sendMlsWelcome"
           /\ Len(k.reply[2][3]) = 2
           /\ k.reply[2][3][2] = k.reply[1][3].fields[2].value
           /\ k.reply[2][3][2].bytes = <<1, 40>>
           /\ Len(k.reply[2][5]) = 1

\* C19: a stream command never closes or aborts its output stream, and it
\* keeps what it acquired: while it runs and after it returned or faulted,
\* the input stays locked by its reader and the output by its writer.
C19_LocksHeld ==
    \A c \in Calls :
        LET k == call[c]
        IN (k.status # "idle" /\ TypeIs(k.event, StreamTypes)) =>
              /\ ~k.out_closed
              /\ k.f # "none" => (k.reader /\ k.writer)
              /\ k.writer => k.reader

C19_Kept ==
    \A c \in Calls :
        (call[c].status # "idle" /\ call'[c].status # "idle") =>
            /\ call[c].reader => call'[c].reader
            /\ call[c].writer => call'[c].writer
            /\ call'[c].event = call[c].event

C19_NeverClosesOrReleases == []C19_LocksHeld /\ [][C19_Kept]_vars

C19_Witness ==
    \E c \in Calls :
        LET k == call[c]
        IN /\ k.f # "none" /\ k.status = "faulted" /\ k.done_reading
           /\ Len(k.output) = 2
           /\ k.reader /\ k.writer /\ ~k.out_closed

====
